---- MODULE Spec2Model ----
(***************************************************************************)
(* NumberTag (data/util/classes/NumberTag.py): normalisation of decimal    *)
(* literals, positional tagging of the numbers of a sentence and of its    *)
(* equation, and unmasking.                                                *)
(*                                                                         *)
(* A Python str is a sequence of one-character strings; a list of words is *)
(* a sequence of such sequences; a dict is the sequence of its <<key,      *)
(* value>> items in insertion order.                                       *)
(***************************************************************************)
EXTENDS Integers, Sequences, FiniteSets, TLC

VARIABLES
    pc,                 \* where the caller is: "new", "constructed", "raised", "text", ...
    sentence,           \* argument of NumberTag(sentence, equation)
    equation,           \* argument of NumberTag(sentence, equation)
    original_sentence,  \* self.__original_sentence
    original_equation,  \* self.__original_equation
    tagged_sentence,    \* self.__tagged_sentence
    tagged_equation,    \* self.__tagged_equation
    lookup_table,       \* self.__lookup_table
    originals,          \* last value returned by get_originals()
    masked,             \* last value returned by get_masked()
    unmask_arg,         \* argument of the last unmask_sentence call
    unmasked,           \* value returned by the last unmask_sentence call
    text,               \* argument of a direct _normalize_numbers call
    normalized,         \* _normalize_numbers(text)
    renormalized        \* _normalize_numbers(_normalize_numbers(text))

vars == <<pc, sentence, equation, original_sentence, original_equation,
          tagged_sentence, tagged_equation, lookup_table, originals, masked,
          unmask_arg, unmasked, text, normalized, renormalized>>

(***************************************************************************)
(* Bounds of the model.                                                    *)
(***************************************************************************)
MaxTextLen == 6
MaxSentenceWords == 3
MaxEquationWords == 2
MaxCapacityWords == 9

(***************************************************************************)
(* Characters.                                                             *)
(***************************************************************************)
Digits == {"0", "1", "2", "3", "4", "5", "6", "7", "8", "9"}

Letters == {"a", "b", "c", "d", "e", "f", "g", "h", "i", "j", "k", "l", "m",
            "n", "o", "p", "q", "r", "s", "t", "u", "v", "w", "x", "y", "z"}

\* str.isspace, on the characters of the model
IsSpace(c) == c = " "

\* the regular expression class \d
IsDigit(c) == c \in Digits

\* the regular expression class \w
IsWordChar(c) == c \in Digits \cup Letters \cup {"_"}

\* the regular expression assertion \b between s[j] and s[j+1]
WordBoundary(s, j) ==
    LET before == j >= 1 /\ j <= Len(s) /\ IsWordChar(s[j])
        after  == j + 1 >= 1 /\ j + 1 <= Len(s) /\ IsWordChar(s[j + 1])
    IN  before # after

(***************************************************************************)
(* _normalize_numbers: re.sub(r"\.(\d*?)0+\b", repl, sentence)             *)
(***************************************************************************)
\* The pairs <<k, m>> such that "." at p, k digits (\d*), m zeros (0+) and \b match.
MatchCandidates(s, p) ==
    { km \in (0..Len(s)) \X (1..Len(s)) :
        /\ p + km[1] + km[2] <= Len(s)
        /\ \A j \in (p + 1)..(p + km[1]) : IsDigit(s[j])
        /\ \A j \in (p + km[1] + 1)..(p + km[1] + km[2]) : s[j] = "0"
        /\ WordBoundary(s, p + km[1] + km[2]) }

\* Mutant: the group is greedy (\d*) instead of lazy (\d*?).
MatchAtGreedyGroup(s, p) ==
    IF p > Len(s) \/ s[p] # "." \/ MatchCandidates(s, p) = {}
    THEN [found |-> FALSE, group |-> <<>>, end |-> p]
    ELSE LET cands == MatchCandidates(s, p)
             k == CHOOSE a \in {c[1] : c \in cands} :
                      \A b \in {c[1] : c \in cands} : a >= b
             m == CHOOSE a \in {c[2] : c \in {d \in cands : d[1] = k}} :
                      \A b \in {c[2] : c \in {d \in cands : d[1] = k}} : a >= b
         IN  [found |-> TRUE, group |-> SubSeq(s, p + 1, p + k), end |-> p + k + m]

\* The match of \.(\d*?)0+\b starting at position p, if any: the lazy group takes
\* the fewest digits that let the rest match, the zeros after it the most.
MatchAt(s, p) ==
    IF p > Len(s) \/ s[p] # "." \/ MatchCandidates(s, p) = {}
    THEN [found |-> FALSE, group |-> <<>>, end |-> p]
    ELSE LET cands == MatchCandidates(s, p)
             k == CHOOSE a \in {c[1] : c \in cands} :
                      \A b \in {c[1] : c \in cands} : a <= b
             m == CHOOSE a \in {c[2] : c \in {d \in cands : d[1] = k}} :
                      \A b \in {c[2] : c \in {d \in cands : d[1] = k}} : a >= b
         IN  [found |-> TRUE, group |-> SubSeq(s, p + 1, p + k), end |-> p + k + m]

\* Mutant: the decimal point is kept when no fractional digit remains.
ReplacementKeepPoint(group) == <<".">> \o group

\* lambda m: f".{m[1]}" if len(m[1]) else ""
Replacement(group) == IF Len(group) > 0 THEN <<".">> \o group ELSE <<>>

\* re.sub's scan: leftmost match, replaced, then on from the end of the match.
RECURSIVE SubFrom(_, _)
SubFrom(s, p) ==
    IF p > Len(s) THEN <<>>
    ELSE LET mt == MatchAt(s, p)
         IN  IF mt.found
             THEN Replacement(mt.group) \o SubFrom(s, mt.end + 1)
             ELSE <<s[p]>> \o SubFrom(s, p + 1)

_normalize_numbers(s) == SubFrom(s, 1)

(***************************************************************************)
(* float(word): the words Python's float() parses (after which the word is *)
(* a number) and those it rejects with ValueError, for words of ASCII      *)
(* digits, lower-case letters, signs, "_" and ".".                         *)
(***************************************************************************)
\* digit (["_"] digit)*
IsDigitPart(w) ==
    /\ Len(w) > 0
    /\ IsDigit(w[1])
    /\ IsDigit(w[Len(w)])
    /\ \A i \in 1..Len(w) : IsDigit(w[i]) \/ w[i] = "_"
    /\ \A i \in 1..(Len(w) - 1) : ~(w[i] = "_" /\ w[i + 1] = "_")

\* digitpart | digitpart "." [digitpart] | "." digitpart
IsPointFloat(w) ==
    \/ IsDigitPart(w)
    \/ \E d \in 1..Len(w) :
          /\ w[d] = "."
          /\ LET whole == SubSeq(w, 1, d - 1)
                 frac  == SubSeq(w, d + 1, Len(w))
             IN  \/ IsDigitPart(whole) /\ (frac = <<>> \/ IsDigitPart(frac))
                 \/ whole = <<>> /\ IsDigitPart(frac)

DropSign(w) == IF Len(w) > 0 /\ w[1] \in {"+", "-"} THEN Tail(w) ELSE w

\* pointfloat [("e" | "E") ["+" | "-"] digitpart]
IsFloatNumber(w) ==
    \/ IsPointFloat(w)
    \/ \E e \in 1..Len(w) :
          /\ w[e] \in {"e", "E"}
          /\ IsPointFloat(SubSeq(w, 1, e - 1))
          /\ IsDigitPart(DropSign(SubSeq(w, e + 1, Len(w))))

\* TRUE iff float(word) returns; FALSE iff it raises ValueError.
IsFloat(word) ==
    LET body == DropSign(word)
    IN  \/ body \in {<<"i", "n", "f">>, <<"n", "a", "n">>,
                     <<"i", "n", "f", "i", "n", "i", "t", "y">>}
        \/ IsFloatNumber(body)

(***************************************************************************)
(* str.split() and " ".join(words)                                         *)
(***************************************************************************)
RECURSIVE SplitFrom(_, _, _)
SplitFrom(s, p, cur) ==
    LET done == IF cur = <<>> THEN <<>> ELSE <<cur>>
    IN  IF p > Len(s) THEN done
        ELSE IF IsSpace(s[p]) THEN done \o SplitFrom(s, p + 1, <<>>)
        ELSE SplitFrom(s, p + 1, Append(cur, s[p]))

\* s.split(): the maximal runs of characters that are not whitespace
split(s) == SplitFrom(s, 1, <<>>)

RECURSIVE join(_)
\* " ".join(words)
join(words) ==
    IF Len(words) = 0 THEN <<>>
    ELSE IF Len(words) = 1 THEN words[1]
    ELSE words[1] \o <<" ">> \o join(Tail(words))

(***************************************************************************)
(* dict: the sequence of its items <<key, value>> in insertion order.      *)
(***************************************************************************)
\* key in d
DictHas(d, key) == \E n \in 1..Len(d) : d[n][1] = key

\* d[key]
DictGet(d, key) == d[CHOOSE n \in 1..Len(d) : d[n][1] = key][2]

\* d[key] = value: a new key is appended, a known key keeps its place
DictSet(d, key, value) ==
    IF DictHas(d, key)
    THEN [n \in 1..Len(d) |-> IF d[n][1] = key THEN <<key, value>> ELSE d[n]]
    ELSE Append(d, <<key, value>>)

\* del d[key]
DictDel(d, key) == SelectSeq(d, LAMBDA item : item[1] # key)

(***************************************************************************)
(* NumberTag.__map_numbers                                                 *)
(***************************************************************************)
_TAGS == <<"x", "y", "z", "j", "q", "v", "w", "r">>

\* Mutant: the alphabet is indexed from its end (_TAGS[-(n + 1)]).
TagKeyFromEnd(n) == <<"<", _TAGS[Len(_TAGS) - n], ">">>

\* f"<{_TAGS[n]}>" for the 0-based index n = len(lookup_dict)
TagKey(n) == <<"<", _TAGS[n + 1], ">">>

\* Mutant: the alphabet is taken to be exhausted one symbol early.
TagsExhaustedEarly(n) == n >= Len(_TAGS) - 1

\* _TAGS[n] raises IndexError
TagsExhausted(n) == n >= Len(_TAGS)

\* Mutant: a word that is not a number is tagged too (the continue is lost).
TagStepNoContinue(st, i) ==
    IF TagsExhausted(Len(st.lookup_dict))
    THEN [st EXCEPT !.raised = TRUE]
    ELSE LET key == TagKey(Len(st.lookup_dict))
         IN  [st EXCEPT !.lookup_dict = DictSet(@, key, st.sentence_list[i]),
                        !.sentence_list[i] = key]

\* One iteration of the loop over sentence_list (lines 46-54).
TagStep(st, i) ==
    LET word == st.sentence_list[i]
    IN  IF ~IsFloat(word) THEN st
        ELSE IF TagsExhausted(Len(st.lookup_dict))
        THEN [st EXCEPT !.raised = TRUE]
        ELSE LET key == TagKey(Len(st.lookup_dict))
             IN  [st EXCEPT !.lookup_dict = DictSet(@, key, word),
                            !.sentence_list[i] = key]

RECURSIVE TagLoop(_, _)
\* for i, word in enumerate(sentence_list), until done or IndexError
TagLoop(st, i) ==
    IF st.raised \/ i > Len(st.sentence_list) THEN st
    ELSE TagLoop(TagStep(st, i), i + 1)

RECURSIVE InvertFrom(_, _, _)
InvertFrom(lookup_dict, n, acc) ==
    IF n > Len(lookup_dict) THEN acc
    ELSE InvertFrom(lookup_dict, n + 1, DictSet(acc, lookup_dict[n][2], lookup_dict[n][1]))

\* Mutant: the dict is not inverted (adjust_dict = lookup_dict).
InvertNot(lookup_dict) == lookup_dict

\* Mutant: the first tag of a repeated value is kept instead of the last.
RECURSIVE InvertKeepFirstFrom(_, _, _)
InvertKeepFirstFrom(lookup_dict, n, acc) ==
    IF n > Len(lookup_dict) THEN acc
    ELSE InvertKeepFirstFrom(lookup_dict, n + 1,
             IF DictHas(acc, lookup_dict[n][2]) THEN acc
             ELSE DictSet(acc, lookup_dict[n][2], lookup_dict[n][1]))

InvertKeepFirst(lookup_dict) == InvertKeepFirstFrom(lookup_dict, 1, <<>>)

\* adjust_dict = { v: k for k, v in lookup_dict.items() }
Invert(lookup_dict) == InvertFrom(lookup_dict, 1, <<>>)

\* Mutant: the entry used is the first of adjust_dict, not the word's.
EquationStepFirstEntry(st, i) ==
    LET word == st.equation_list[i]
    IN  IF DictHas(st.adjust_dict, word)
        THEN [st EXCEPT !.equation_list[i] = st.adjust_dict[1][2],
                        !.adjust_dict = DictDel(@, word)]
        ELSE st

\* One iteration of the loop over equation_list (lines 59-62).
EquationStep(st, i) ==
    LET word == st.equation_list[i]
    IN  IF DictHas(st.adjust_dict, word)
        THEN [st EXCEPT !.equation_list[i] = DictGet(st.adjust_dict, word),
                        !.adjust_dict = DictDel(@, word)]
        ELSE st

RECURSIVE EquationLoop(_, _)
\* for i, word in enumerate(equation_list)
EquationLoop(st, i) ==
    IF i > Len(st.equation_list) THEN st
    ELSE EquationLoop(EquationStep(st, i), i + 1)

\* __map_numbers(sentence, equation): the three values returned, or raised
map_numbers(s, e) ==
    LET tagged == TagLoop([sentence_list |-> split(s), lookup_dict |-> <<>>,
                           raised |-> FALSE], 1)
        adjusted == EquationLoop([equation_list |-> split(e),
                                  adjust_dict |-> Invert(tagged.lookup_dict)], 1)
    IN  IF tagged.raised
        THEN [raised |-> TRUE, sentence |-> <<>>, equation |-> <<>>, lookup_dict |-> <<>>]
        ELSE [raised |-> FALSE,
              sentence |-> join(tagged.sentence_list),
              equation |-> join(adjusted.equation_list),
              lookup_dict |-> tagged.lookup_dict]

RECURSIVE UnmaskFrom(_, _, _)
UnmaskFrom(words, table, i) ==
    IF i > Len(words) THEN words
    ELSE UnmaskFrom(IF DictHas(table, words[i])
                    THEN [words EXCEPT ![i] = DictGet(table, words[i])]
                    ELSE words,
                    table, i + 1)

\* NumberTag.unmask_sentence(sentence), with self.__lookup_table = table
unmask_sentence(table, s) == join(UnmaskFrom(split(s), table, 1))

(***************************************************************************)
(* Direct calls of _normalize_numbers.                                     *)
(***************************************************************************)
TextChars == {"0", "1", ".", "a", " "}

RECURSIVE StringsUpTo(_, _)
StringsUpTo(chars, n) ==
    IF n = 0 THEN {<<>>}
    ELSE LET shorter == StringsUpTo(chars, n - 1)
         IN  shorter \cup {Append(t, c) : t \in {u \in shorter : Len(u) = n - 1}, c \in chars}

Texts == StringsUpTo(TextChars, MaxTextLen)

Unset == <<>>

InitNormalize ==
    /\ pc = "text"
    /\ text \in Texts
    /\ normalized = Unset
    /\ renormalized = Unset
    /\ sentence = Unset
    /\ equation = Unset
    /\ original_sentence = Unset
    /\ original_equation = Unset
    /\ tagged_sentence = Unset
    /\ tagged_equation = Unset
    /\ lookup_table = Unset
    /\ originals = Unset
    /\ masked = Unset
    /\ unmask_arg = Unset
    /\ unmasked = Unset

instanceVars == <<sentence, equation, original_sentence, original_equation,
                  tagged_sentence, tagged_equation, lookup_table, originals,
                  masked, unmask_arg, unmasked>>

\* normalized = _normalize_numbers(text)
Normalize ==
    /\ pc = "text"
    /\ normalized' = _normalize_numbers(text)
    /\ pc' = "normalized"
    /\ UNCHANGED <<text, renormalized, instanceVars>>

\* renormalized = _normalize_numbers(normalized)
Renormalize ==
    /\ pc = "normalized"
    /\ renormalized' = _normalize_numbers(normalized)
    /\ pc' = "renormalized"
    /\ UNCHANGED <<text, normalized, instanceVars>>

NextNormalize == Normalize \/ Renormalize

SpecNormalize == InitNormalize /\ [][NextNormalize]_vars

(***************************************************************************)
(* NumberTag(sentence, equation) and its accessors. The caller is the      *)
(* doctest of the class: it constructs, then calls get_originals(),        *)
(* get_masked() and unmask_sentence() once each, in that order; the        *)
(* accessors change nothing of the instance. The arguments are words of a  *)
(* small vocabulary in three layouts of whitespace, and, for the capacity  *)
(* of the alphabet, longer single-spaced sentences of two words.           *)
(***************************************************************************)
SentenceVocabulary == {<<"a">>, <<"1">>, <<"2", ".", "5", "0">>, <<"<", "x", ">">>}

EquationVocabulary == {<<"1">>, <<"2", ".", "5", "0">>, <<"<", "x", ">">>}

CapacityVocabulary == {<<"a">>, <<"1">>}

\* How the words of an input are laid out: the separator and the padding.
Layouts == {[sep |-> <<" ">>, pad |-> <<>>],
            [sep |-> <<" ", " ">>, pad |-> <<>>],
            [sep |-> <<" ">>, pad |-> <<" ">>]}

RECURSIVE WordLists(_, _)
WordLists(vocabulary, n) ==
    IF n = 0 THEN {<<>>}
    ELSE LET shorter == WordLists(vocabulary, n - 1)
         IN  shorter \cup {Append(l, w) : l \in {u \in shorter : Len(u) = n - 1},
                                          w \in vocabulary}

RECURSIVE Separated(_, _)
Separated(words, sep) ==
    IF Len(words) = 0 THEN <<>>
    ELSE IF Len(words) = 1 THEN words[1]
    ELSE words[1] \o sep \o Separated(Tail(words), sep)

LaidOut(words, layout) == layout.pad \o Separated(words, layout.sep) \o layout.pad

Sentences ==
    {LaidOut(l, layout) : l \in WordLists(SentenceVocabulary, MaxSentenceWords),
                          layout \in Layouts}

SingleSpaced == [sep |-> <<" ">>, pad |-> <<>>]

Equations ==
    {LaidOut(l, SingleSpaced) : l \in WordLists(EquationVocabulary, MaxEquationWords)}

CapacitySentences ==
    {LaidOut(l, SingleSpaced) : l \in WordLists(CapacityVocabulary, MaxCapacityWords)}

Init ==
    /\ pc = "new"
    /\ \/ sentence \in Sentences /\ equation \in Equations
       \/ sentence \in CapacitySentences /\ equation = <<"1">>
    /\ original_sentence = Unset
    /\ original_equation = Unset
    /\ tagged_sentence = Unset
    /\ tagged_equation = Unset
    /\ lookup_table = Unset
    /\ originals = Unset
    /\ masked = Unset
    /\ unmask_arg = Unset
    /\ unmasked = Unset
    /\ text = Unset
    /\ normalized = Unset
    /\ renormalized = Unset

normalizeVars == <<text, normalized, renormalized>>

\* NumberTag.__init__(sentence, equation): an instance, or the IndexError of
\* __map_numbers, which leaves the caller without one.
Construct ==
    /\ pc = "new"
    /\ original_sentence' = _normalize_numbers(sentence)
    /\ original_equation' = _normalize_numbers(equation)
    /\ LET r == map_numbers(original_sentence', original_equation')
       IN  IF r.raised
           THEN /\ pc' = "raised"
                /\ UNCHANGED <<tagged_sentence, tagged_equation, lookup_table>>
           ELSE /\ pc' = "constructed"
                /\ tagged_sentence' = r.sentence
                /\ tagged_equation' = r.equation
                /\ lookup_table' = r.lookup_dict
    /\ UNCHANGED <<sentence, equation, originals, masked, unmask_arg, unmasked,
                   normalizeVars>>

\* originals = nt.get_originals()
GetOriginals ==
    /\ pc = "constructed"
    /\ originals = Unset
    /\ originals' = <<original_sentence, original_equation>>
    /\ UNCHANGED <<pc, sentence, equation, original_sentence, original_equation,
                   tagged_sentence, tagged_equation, lookup_table, masked,
                   unmask_arg, unmasked, normalizeVars>>

\* masked = nt.get_masked()
GetMasked ==
    /\ pc = "constructed"
    /\ originals # Unset
    /\ masked = Unset
    /\ masked' = <<tagged_sentence, tagged_equation>>
    /\ UNCHANGED <<pc, sentence, equation, original_sentence, original_equation,
                   tagged_sentence, tagged_equation, lookup_table, originals,
                   unmask_arg, unmasked, normalizeVars>>

\* unmasked = nt.unmask_sentence(masked[0]) or nt.unmask_sentence(masked[1])
UnmaskSentence ==
    /\ pc = "constructed"
    /\ masked # Unset
    /\ unmask_arg = Unset
    /\ \E n \in 1..2 :
          /\ unmask_arg' = <<n, masked[n]>>
          /\ unmasked' = unmask_sentence(lookup_table, masked[n])
    /\ UNCHANGED <<pc, sentence, equation, original_sentence, original_equation,
                   tagged_sentence, tagged_equation, lookup_table, originals,
                   masked, normalizeVars>>

Next == Construct \/ GetOriginals \/ GetMasked \/ UnmaskSentence

Spec == Init /\ [][Next]_vars

(***************************************************************************)
(* Vocabulary of the properties.                                           *)
(***************************************************************************)
\* the positions of the words that parse as numbers
NumericPositions(words) == {i \in 1..Len(words) : IsFloat(words[i])}

\* k such that words[i] is the k-th numeric word
Rank(words, i) == Cardinality({j \in NumericPositions(words) : j <= i})

\* the tag built from the k-th symbol of the alphabet, k from 1
AlphabetTag(k) == <<"<", _TAGS[k], ">">>

\* how many times word occurs in words
Occurrences(words, word) == Cardinality({i \in 1..Len(words) : words[i] = word})

\* how many times word occurs among the numeric words of words
NumericOccurrences(words, word) ==
    Cardinality({i \in NumericPositions(words) : words[i] = word})

Least(S) == CHOOSE a \in S : \A b \in S : a <= b

Greatest(S) == CHOOSE a \in S : \A b \in S : a >= b

\* no leading, trailing or doubled whitespace
IsSingleSpaced(s) ==
    /\ Len(s) > 0 => ~IsSpace(s[1]) /\ ~IsSpace(s[Len(s)])
    /\ \A i \in 1..(Len(s) - 1) : ~(IsSpace(s[i]) /\ IsSpace(s[i + 1]))

Constructed == pc = "constructed"

(***************************************************************************)
(* C1. Round trip, as claimed: once an instance is constructed, unmasking  *)
(* get_masked()[0] gives back exactly get_originals()[0].                  *)
(***************************************************************************)
C1_RoundTrip ==
    (Constructed /\ originals # Unset /\ unmask_arg # Unset /\ unmask_arg[1] = 1)
        => unmasked = originals[1]

(***************************************************************************)
(* C2. Normalisation is idempotent: normalising the normalised text gives  *)
(* the same text, and no position of the normalised text starts a match.   *)
(***************************************************************************)
C2_NormalizeIdempotent ==
    /\ pc = "renormalized" => renormalized = normalized
    /\ pc \in {"normalized", "renormalized"} =>
          \A p \in 1..Len(normalized) : ~MatchAt(normalized, p).found

C2_Witness == pc = "renormalized" /\ normalized # text /\ Len(normalized) > 0

(***************************************************************************)
(* C3. Normalisation result: a decimal literal digits "." fraction at the  *)
(* start of the text, ending at a word boundary, loses the trailing zeros  *)
(* of its fraction, and the point too when no fractional digit remains; it *)
(* is unchanged when the fraction does not end in zero; what follows it is *)
(* normalised on its own. A text without a point is returned unchanged.    *)
(***************************************************************************)
AllDigits(s) == Len(s) > 0 /\ \A i \in 1..Len(s) : IsDigit(s[i])

RECURSIVE StripZeros(_)
StripZeros(fraction) ==
    IF Len(fraction) > 0 /\ fraction[Len(fraction)] = "0"
    THEN StripZeros(SubSeq(fraction, 1, Len(fraction) - 1))
    ELSE fraction

\* the literal digits "." fraction with its trailing zeros stripped
Stripped(whole, fraction) ==
    IF StripZeros(fraction) = <<>> THEN whole
    ELSE whole \o <<".">> \o StripZeros(fraction)

C4_TagAllocation ==
    Constructed =>
        LET words == split(original_sentence)
            tagged == split(tagged_sentence)
        IN  /\ Len(tagged) = Len(words)
            /\ Len(lookup_table) = Cardinality(NumericPositions(words))
            /\ \A i \in NumericPositions(words) :
                  /\ tagged[i] = AlphabetTag(Rank(words, i))
                  /\ lookup_table[Rank(words, i)] = <<AlphabetTag(Rank(words, i)), words[i]>>
            /\ \A m, n \in 1..Len(lookup_table) :
                  m # n => lookup_table[m][1] # lookup_table[n][1]

C4_Witness ==
    /\ Constructed
    /\ Len(lookup_table) = 3
    /\ lookup_table[2] = <<AlphabetTag(2), <<"2", ".", "5">>>>
    /\ lookup_table[3][2] = <<"1">>

(***************************************************************************)
(* C5. Equation consumption: a number that is one numeric word of the      *)
(* sentence and one word of the normalised equation is replaced in the     *)
(* equation by the tag of the sentence word; an equation word equal to no  *)
(* numeric word of the sentence is left as it is, at its position.         *)
(***************************************************************************)
C5_EquationConsumption ==
    Constructed =>
        LET words == split(original_sentence)
            eq == split(original_equation)
            teq == split(tagged_equation)
        IN  /\ Len(teq) = Len(eq)
            /\ \A i \in NumericPositions(words) : \A j \in 1..Len(eq) :
                  (/\ eq[j] = words[i]
                   /\ NumericOccurrences(words, words[i]) = 1
                   /\ Occurrences(eq, words[i]) = 1)
                  => teq[j] = AlphabetTag(Rank(words, i))
            /\ \A j \in 1..Len(eq) :
                  (\A i \in NumericPositions(words) : words[i] # eq[j]) => teq[j] = eq[j]

C5_Witness ==
    /\ Constructed
    /\ split(original_sentence) = <<<<"1">>, <<"a">>, <<"2", ".", "5">>>>
    /\ split(original_equation) = <<<<"2", ".", "5">>, <<"<", "x", ">">>>>
    /\ split(tagged_equation) = <<AlphabetTag(2), <<"<", "x", ">">>>>

(***************************************************************************)
(* C6. Alphabet capacity: construction raises exactly when the normalised  *)
(* sentence has more numeric words than the alphabet has symbols, and the  *)
(* lookup_table of an instance has at most that many entries.              *)
(***************************************************************************)
C6_AlphabetCapacity ==
    /\ pc = "raised" =>
          Cardinality(NumericPositions(split(original_sentence))) > Len(_TAGS)
    /\ Constructed =>
          /\ Cardinality(NumericPositions(split(original_sentence))) <= Len(_TAGS)
          /\ Len(lookup_table) <= Len(_TAGS)

C6_Witness ==
    /\ pc = "raised"
    /\ Cardinality(NumericPositions(split(original_sentence))) = Len(_TAGS) + 1

(***************************************************************************)
(* C7. Tag occurrence, as claimed: every key of lookup_table is exactly    *)
(* one word of tagged_sentence.                                            *)
(***************************************************************************)
C7_TagOccursOnce ==
    Constructed =>
        \A n \in 1..Len(lookup_table) :
            Occurrences(split(tagged_sentence), lookup_table[n][1]) = 1

C9_RepeatedNumbers ==
    Constructed =>
        LET words == split(original_sentence)
            tagged == split(tagged_sentence)
            eq == split(original_equation)
            teq == split(tagged_equation)
        IN  /\ \A i \in NumericPositions(words) :
                  LET same == {h \in NumericPositions(words) : words[h] = words[i]}
                      at == {j \in 1..Len(eq) : eq[j] = words[i]}
                  IN  Cardinality(same) >= 2 =>
                        /\ \A a \in same : tagged[a] = AlphabetTag(Rank(words, a))
                        /\ \A a, b \in same : a # b => tagged[a] # tagged[b]
                        /\ at # {} =>
                              teq[Least(at)] = AlphabetTag(Rank(words, Greatest(same)))
                        /\ \A j \in at : j # Least(at) => teq[j] = eq[j]
                        /\ \A a \in same \ {Greatest(same)} : \A j \in 1..Len(eq) :
                              teq[j] = tagged[a] => eq[j] = teq[j]
            /\ \A i \in NumericPositions(words) :
                  Cardinality({j \in 1..Len(eq) : eq[j] = words[i] /\ teq[j] # eq[j]}) <= 1

C9_Witness ==
    /\ Constructed
    /\ split(original_sentence) = <<<<"1">>, <<"a">>, <<"1">>>>
    /\ split(original_equation) = <<<<"1">>, <<"1">>>>
    /\ split(tagged_equation) = <<AlphabetTag(2), <<"1">>>>

(***************************************************************************)
(* C10. Equation correspondence: tagged_equation has as many words as the  *)
(* normalised equation, and each is the equation's word at that position   *)
(* or a key of lookup_table whose value is that word.                      *)
(***************************************************************************)
C10_EquationCorrespondence ==
    Constructed =>
        LET eq == split(original_equation)
            teq == split(tagged_equation)
        IN  /\ Len(teq) = Len(eq)
            /\ \A j \in 1..Len(eq) :
                  \/ teq[j] = eq[j]
                  \/ \E n \in 1..Len(lookup_table) :
                        lookup_table[n] = <<teq[j], eq[j]>>

C10_Witness ==
    /\ Constructed
    /\ split(original_sentence) = <<<<"1">>, <<"2", ".", "5">>>>
    /\ split(original_equation) = <<<<"2", ".", "5">>, <<"1">>>>
    /\ split(tagged_equation) = <<AlphabetTag(2), AlphabetTag(1)>>
    /\ unmask_arg # Unset
    /\ unmask_arg[1] = 2
    /\ unmasked = original_equation

====
